---- MODULE Spec2Model ----
(***************************************************************************)
(* A model of berry (src/main.rs): the `new` command (toolchain probes,    *)
(* name validation, init_project's eight-step bootstrap, failure cleanup), *)
(* the `setup` command (run_setup), and the text rewrites they apply.      *)
(*                                                                         *)
(* Text is a sequence of tokens (lexical fragments of the literals the     *)
(* code matches on); str::replace, str::contains and str::ends_with are    *)
(* computed over such sequences.  A path is a sequence of components from  *)
(* the working directory; a component is itself a token sequence, so that  *)
(* Path::to_string_lossy().contains(..) is computed on the joined string.  *)
(* The file system is a function from the existing paths to their nodes.   *)
(***************************************************************************)
EXTENDS Integers, Sequences, FiniteSets, TLC

VARIABLES
    cmd,        \* the subcommand clap parsed: "new", "setup", or a rewrite pass
    name,       \* Commands::New { name } (a token sequence)
    dirArg,     \* Commands::Setup { dir }: <<>> for None, else <<path>>
    envKey,     \* whether BONSAI_API_KEY is set in the caller's environment
    tmpl,       \* the tree the remote repository holds (what a clone yields)
    pc,         \* position in main / init_project / run_setup
    fs,         \* the file system
    cwd,        \* the process's working directory (env::set_current_dir)
    todo,       \* manifests visit_cargo_files has still to reach
    exitCode,   \* the process exit status once terminated, else -1
    diag,       \* the failure main reported, "none" while it reported none
    log,        \* history: the steps started and what each reported
    fs0,        \* history: the file system when the command was invoked
    cloned,     \* history: the file system right after the clone step
    target,     \* the file a rewrite pass is applied to
    hist        \* history: the target's content before and after each pass

vars == <<cmd, name, dirArg, envKey, tmpl, pc, fs, cwd, todo, exitCode,
          diag, log, fs0, cloned, target, hist>>

---------------------------------------------------------------------------
(* Bounds of the model. *)

\* how many fragments an enumerated manifest content is built from
MaxManifestParts == 2
\* how many fragments an enumerated remappings content is built from
MaxRemapParts == 3
\* how many times a rewrite pass is applied to the same file
MaxPasses == 2
\* the number of fragments an enumerated foundry.toml is built from
MaxFoundryParts == 3

---------------------------------------------------------------------------
(* Text: str::contains, str::ends_with, str::replace, str::trim. *)

Contains(s, pat) ==
    \E i \in 1..(Len(s) + 1) :
        /\ i + Len(pat) - 1 <= Len(s)
        /\ SubSeq(s, i, i + Len(pat) - 1) = pat

EndsWith(s, pat) ==
    /\ Len(pat) <= Len(s)
    /\ SubSeq(s, Len(s) - Len(pat) + 1, Len(s)) = pat

IsPrefix(p, q) ==
    /\ Len(p) <= Len(q)
    /\ SubSeq(q, 1, Len(p)) = p

\* str::replace: every non-overlapping match, left to right
RECURSIVE Replace(_, _, _)
Replace(s, pat, rep) ==
    IF Len(s) < Len(pat) \/ Len(pat) = 0 THEN s
    ELSE IF SubSeq(s, 1, Len(pat)) = pat
         THEN rep \o Replace(SubSeq(s, Len(pat) + 1, Len(s)), pat, rep)
         ELSE <<Head(s)>> \o Replace(Tail(s), pat, rep)

\* the number of non-overlapping matches of pat in s
RECURSIVE Count(_, _)
Count(s, pat) ==
    IF Len(s) < Len(pat) \/ Len(pat) = 0 THEN 0
    ELSE IF SubSeq(s, 1, Len(pat)) = pat
         THEN 1 + Count(SubSeq(s, Len(pat) + 1, Len(s)), pat)
         ELSE Count(Tail(s), pat)

IsWhitespace(t) == t \in {" ", "\t"}

RECURSIVE TrimStart(_)
TrimStart(s) ==
    IF s # <<>> /\ IsWhitespace(Head(s)) THEN TrimStart(Tail(s)) ELSE s

RECURSIVE TrimEnd(_)
TrimEnd(s) ==
    IF s # <<>> /\ IsWhitespace(s[Len(s)])
    THEN TrimEnd(SubSeq(s, 1, Len(s) - 1)) ELSE s

Trim(s) == TrimEnd(TrimStart(s))

\* every concatenation of at most n fragments drawn from parts
RECURSIVE Concats(_, _)
Concats(parts, n) ==
    IF n = 0 THEN {<<>>}
    ELSE LET shorter == Concats(parts, n - 1)
         IN  shorter \cup {p \o s : p \in parts, s \in shorter}

---------------------------------------------------------------------------
(* Paths and the file system. *)

\* Path::join
Join(p, c) == Append(p, c)

\* Path::to_string_lossy: the components joined by "/"
RECURSIVE PathStr(_)
PathStr(p) ==
    IF p = <<>> THEN <<>>
    ELSE IF Len(p) = 1 THEN p[1]
    ELSE p[1] \o <<"/">> \o PathStr(Tail(p))

\* Path::file_name
FileName(p) == p[Len(p)]

Parent(p) == SubSeq(p, 1, Len(p) - 1)

DirNode == [kind |-> "dir", content |-> <<>>, exec |-> FALSE]
FileNode(c) == [kind |-> "file", content |-> c, exec |-> FALSE]

\* Path::exists, Path::is_dir, Path::is_file
Exists(f, p) == p \in DOMAIN f
IsDir(f, p) == p \in DOMAIN f /\ f[p].kind = "dir"
IsFile(f, p) == p \in DOMAIN f /\ f[p].kind = "file"

\* fs::read_dir: the entries directly in d
Entries(f, d) == {q \in DOMAIN f : Len(q) = Len(d) + 1 /\ IsPrefix(d, q)}

\* everything at or below p
Under(f, p) == {q \in DOMAIN f : IsPrefix(p, q)}

Restrict(f, S) == [q \in S |-> f[q]]

\* fs::remove_dir_all, fs::remove_file (when they succeed)
RemoveTree(f, p) == Restrict(f, DOMAIN f \ Under(f, p))

\* fs::rename of from to a path to (when it succeeds): the whole subtree moves
\* and replaces what was at to
Rebase(q, from, to) == to \o SubSeq(q, Len(from) + 1, Len(q))
MoveTree(f, from, to) ==
    LET moved == Under(f, from)
        kept  == (DOMAIN f \ moved) \ Under(f, to)
    IN  [k \in kept \cup {Rebase(q, from, to) : q \in moved} |->
            IF k \in kept THEN f[k]
            ELSE f[CHOOSE q \in moved : Rebase(q, from, to) = k]]

\* rename(2) refuses a directory over a file, a file over a directory, and a
\* directory over a directory that is not empty
CanRename(f, from, to) ==
    /\ Exists(f, from)
    /\ IsDir(f, Parent(to))
    /\ Exists(f, to) =>
          /\ f[to].kind = f[from].kind
          /\ IsDir(f, to) => Entries(f, to) = {}

\* fs::File::create + write_all of c to an existing or new file p
WriteFile(f, p, c) ==
    IF p \in DOMAIN f
    THEN [f EXCEPT ![p] = [@ EXCEPT !.content = c]]
    ELSE (p :> FileNode(c)) @@ f

\* fs::create_dir_all
RECURSIVE CreateDirAll(_, _)
CreateDirAll(f, p) ==
    IF p = <<>> \/ p \in DOMAIN f THEN f
    ELSE (p :> DirNode) @@ CreateDirAll(f, Parent(p))

\* a tree of relative paths placed at root
Graft(f, root, tree) ==
    LET placed == {root \o r : r \in DOMAIN tree}
    IN  [k \in placed \cup (DOMAIN f \ placed) |->
            IF k \in placed
            THEN tree[SubSeq(k, Len(root) + 1, Len(k))]
            ELSE f[k]]

---------------------------------------------------------------------------
(* The literals of update_cargo_file, as token sequences: a dependency     *)
(* declaration is its name, the head of its table and the table's close.   *)

STEEL     == "risc0-steel = "
BUILD     == "risc0-build-ethereum = "
CONTRACTS == "risc0-ethereum-contracts = "
PATH_BUILD     == "{ path = \"../../build\""
PATH_CONTRACTS == "{ path = \"../../contracts\""
PATH_STEEL2    == "{ path = \"../../crates/steel\""
PATH_STEEL3    == "{ path = \"../../../crates/steel\""
PATH_STEEL4    == "{ path = \"../../../../crates/steel\""
WORKSPACE == "{ workspace = true"
GIT       == "{ git = \"https://github.com/risc0/risc0-ethereum\", branch = \"release-1.3\""
CLOSE     == " }"
HOST      == ", features = [\"host\"] }"
NL        == "\n"

\* path.to_string_lossy().contains("methods/Cargo.toml")
IsMethodsManifest(path) ==
    Contains(PathStr(path), <<"methods", "/", "Cargo.toml">>)

\* path.to_string_lossy().contains("/apps/")
IsUnderApps(path) ==
    Contains(PathStr(path), <<"/", "apps", "/">>)

\* the single substitution applied to methods/Cargo.toml
MethodsRules(c) ==
    Replace(c, <<BUILD, WORKSPACE, CLOSE>>, <<BUILD, GIT, CLOSE>>)

\* the general rules with the last one writing the declaration without the
\* feature it matched
GeneralRulesFeatureLost(c) ==
    LET r1 == Replace(c,  <<BUILD, PATH_BUILD, CLOSE>>,         <<BUILD, GIT, CLOSE>>)
        r2 == Replace(r1, <<CONTRACTS, PATH_CONTRACTS, CLOSE>>, <<CONTRACTS, GIT, CLOSE>>)
        r3 == Replace(r2, <<STEEL, PATH_STEEL2, CLOSE>>,        <<STEEL, GIT, CLOSE>>)
        r4 == Replace(r3, <<STEEL, PATH_STEEL3, CLOSE>>,        <<STEEL, GIT, CLOSE>>)
        r5 == Replace(r4, <<STEEL, PATH_STEEL4, CLOSE>>,        <<STEEL, GIT, CLOSE>>)
        r6 == Replace(r5, <<CONTRACTS, WORKSPACE, CLOSE>>,      <<CONTRACTS, GIT, CLOSE>>)
        r7 == Replace(r6, <<STEEL, WORKSPACE, CLOSE>>,          <<STEEL, GIT, CLOSE>>)
    IN  Replace(r7, <<STEEL, WORKSPACE, HOST>>, <<STEEL, GIT, CLOSE>>)

\* the eight chained substitutions applied to every other manifest
GeneralRules(c) ==
    LET r1 == Replace(c,  <<BUILD, PATH_BUILD, CLOSE>>,         <<BUILD, GIT, CLOSE>>)
        r2 == Replace(r1, <<CONTRACTS, PATH_CONTRACTS, CLOSE>>, <<CONTRACTS, GIT, CLOSE>>)
        r3 == Replace(r2, <<STEEL, PATH_STEEL2, CLOSE>>,        <<STEEL, GIT, CLOSE>>)
        r4 == Replace(r3, <<STEEL, PATH_STEEL3, CLOSE>>,        <<STEEL, GIT, CLOSE>>)
        r5 == Replace(r4, <<STEEL, PATH_STEEL4, CLOSE>>,        <<STEEL, GIT, CLOSE>>)
        r6 == Replace(r5, <<CONTRACTS, WORKSPACE, CLOSE>>,      <<CONTRACTS, GIT, CLOSE>>)
        r7 == Replace(r6, <<STEEL, WORKSPACE, CLOSE>>,          <<STEEL, GIT, CLOSE>>)
    IN  Replace(r7, <<STEEL, WORKSPACE, HOST>>, <<STEEL, GIT, HOST>>)

\* the apps rule matching the declaration up to its branch only, and
\* inserting the feature there
AppsRuleOpenTable(c) ==
    Replace(c, <<STEEL, GIT>>, <<STEEL, GIT, ", features = [\"host\"]">>)

\* the substitution added for manifests under an apps directory
AppsRule(c) ==
    Replace(c, <<STEEL, GIT, CLOSE>>, <<STEEL, GIT, HOST>>)

\* update_cargo_file: the content written back for the content read
UpdateCargoContent(path, c) ==
    IF IsMethodsManifest(path) THEN MethodsRules(c)
    ELSE IF IsUnderApps(path) THEN AppsRule(GeneralRules(c))
    ELSE GeneralRules(c)

---------------------------------------------------------------------------
(* The literals of update_foundry_config and update_remappings. *)

LIBS_OLD == "libs = [\"../../lib\", \"../../contracts/src\"]"
LIBS_NEW == "libs = [\"lib\"]"
PROFILE  == "[profile.default]"
AUTO_DETECT == "auto_detect_remappings = false"

UpdateFoundryContent(c) ==
    Replace(Replace(c, <<LIBS_OLD>>, <<LIBS_NEW>>),
            <<PROFILE>>, <<PROFILE, NL, AUTO_DETECT>>)

FORGE_OLD == <<"forge-std/", "=", "../../", "lib/", "forge-std/", "src/">>
FORGE_NEW == <<"forge-std/", "=", "lib/", "forge-std/", "src/">>
OZ_OLD    == <<"openzeppelin/", "=", "../../", "lib/", "openzeppelin-contracts/">>
OZ_NEW    == <<"openzeppelin/", "=", "lib/", "openzeppelin-contracts/">>
RISC0_OLD == <<"risc0/", "=", "../../", "contracts", "/", "src/">>
RISC0_NEW == <<"risc0/", "=", "lib/", "risc0-ethereum/", "contracts", "/", "src/">>
\* oz_remapping
OZ_REMAPPING ==
    <<"openzeppelin-contracts/", "=", "lib/", "openzeppelin-contracts/", "contracts">>

\* the three chained substitutions of update_remappings
RemapRules(c) ==
    Replace(Replace(Replace(c, FORGE_OLD, FORGE_NEW), OZ_OLD, OZ_NEW),
            RISC0_OLD, RISC0_NEW)

\* the additive rule without the newline it puts before the entry
AddOzRemappingUnseparated(updated) ==
    IF Contains(updated, OZ_REMAPPING) THEN updated
    ELSE updated \o OZ_REMAPPING \o <<NL>>

\* the additive rule: append oz_remapping when the rewritten text lacks it
AddOzRemapping(updated) ==
    IF Contains(updated, OZ_REMAPPING) THEN updated
    ELSE (IF EndsWith(updated, <<NL>>) THEN updated ELSE updated \o <<NL>>)
         \o OZ_REMAPPING \o <<NL>>

UpdateRemappingsContent(c) == AddOzRemapping(RemapRules(c))

---------------------------------------------------------------------------
(* The remote repository and the git operations of the pipeline.  Paths    *)
(* below are relative to the project directory.                            *)

R1(a)       == << <<a>> >>
R2(a, b)    == << <<a>>, <<b>> >>
R3(a, b, c) == << <<a>>, <<b>>, <<c>> >>
R4(a, b, c, d) == << <<a>>, <<b>>, <<c>>, <<d>> >>

EXAMPLES      == R1("examples")
ERC20_COUNTER == R2("examples", "erc20-counter")

\* The shapes of template the pipeline is run against: whether the example
\* exists, whether it carries foundry.toml and remappings.txt, whether it has
\* a README.md of its own (as the template's root has), and whether the
\* template has submodules (a .gitmodules file and a populated lib/).
Templates ==
    {t \in [example : BOOLEAN, foundry : BOOLEAN, remap : BOOLEAN,
            shadow : BOOLEAN, submodules : BOOLEAN] :
        ~t.example => (~t.foundry /\ ~t.remap /\ ~t.shadow)}

NoTemplate ==
    [example |-> FALSE, foundry |-> FALSE, remap |-> FALSE,
     shadow |-> FALSE, submodules |-> FALSE]

\* the files of examples/erc20-counter on the release branch
ExampleTree(t) ==
    LET base ==
            (<<>> :> DirNode)
            @@ (R1("Cargo.toml") :>
                    FileNode(<<"[workspace]", NL, STEEL, PATH_STEEL2, CLOSE, NL>>))
            @@ (R1("e2e-test.sh") :> FileNode(<<"#!/bin/bash", NL>>))
            @@ (R1("apps") :> DirNode)
            @@ (R2("apps", "Cargo.toml") :>
                    FileNode(<<STEEL, WORKSPACE, CLOSE, NL,
                               CONTRACTS, WORKSPACE, CLOSE, NL>>))
            @@ (R1("methods") :> DirNode)
            @@ (R2("methods", "Cargo.toml") :>
                    FileNode(<<BUILD, WORKSPACE, CLOSE, NL>>))
            @@ (R1("contracts") :> DirNode)
            @@ (R2("contracts", "Cargo.toml") :>
                    FileNode(<<STEEL, WORKSPACE, CLOSE, NL>>))
        foundry ==
            IF t.foundry
            THEN (R1("foundry.toml") :>
                    FileNode(<<PROFILE, NL, LIBS_OLD, NL>>))
            ELSE <<>>
        remap ==
            IF t.remap
            THEN (R1("remappings.txt") :>
                    FileNode(FORGE_OLD \o <<NL>> \o OZ_OLD \o <<NL>> \o RISC0_OLD))
            ELSE <<>>
        shadow ==
            IF t.shadow
            THEN (R1("README.md") :> FileNode(<<"# erc20-counter", NL>>))
            ELSE <<>>
    IN  base @@ foundry @@ remap @@ shadow

\* the tracked files of the release branch outside the example
ScaffoldTree(t) ==
    (<<>> :> DirNode)
    @@ (R1("README.md") :> FileNode(<<"# risc0-ethereum", NL>>))
    @@ (R1("Cargo.toml") :> FileNode(<<"[workspace]", NL>>))
    @@ (R1("build") :> DirNode)
    @@ (R2("build", "Cargo.toml") :> FileNode(<<"[package]", NL>>))
    @@ (EXAMPLES :> DirNode)
    @@ (R2("examples", "README.md") :> FileNode(<<"# examples", NL>>))
    @@ (R2("examples", "governance") :> DirNode)
    @@ (R3("examples", "governance", "Cargo.toml") :>
            FileNode(<<STEEL, WORKSPACE, CLOSE, NL>>))
    @@ (IF t.submodules
        THEN (R1(".gitmodules") :> FileNode(<<"[submodule]", "upstream", NL>>))
        ELSE <<>>)

\* what git keeps besides tracked files: its metadata, and the submodules
\* clone_recurse populated
MetaTree(t) ==
    (<<>> :> DirNode)
    @@ (R1(".git") :> DirNode)
    @@ (R2(".git", "HEAD") :> FileNode(<<"ref">>))
    @@ (IF t.submodules
        THEN (R1("lib") :> DirNode)
             @@ (R2("lib", "forge-std") :> DirNode)
             @@ (R3("lib", "forge-std", "foundry.toml") :> FileNode(<<PROFILE, NL>>))
        ELSE <<>>)

TrackedTree(t) ==
    IF t.example
    THEN Graft(ScaffoldTree(t), ERC20_COUNTER, ExampleTree(t))
    ELSE ScaffoldTree(t)

\* Repository::clone_recurse: the working tree of a full clone
CloneTree(t) == MetaTree(t) @@ TrackedTree(t)

\* `git sparse-checkout init --cone`: of the tracked files, only those
\* directly at the root stay in the working tree
ConeInitTree(t) ==
    LET tracked == TrackedTree(t)
    IN  MetaTree(t)
        @@ Restrict(tracked, {r \in DOMAIN tracked :
                                Len(r) = 1 /\ tracked[r].kind = "file"})

\* `git sparse-checkout set examples/erc20-counter`: the root's files, the
\* files directly in examples/, and everything under examples/erc20-counter
ConeSetTree(t) ==
    LET tracked == TrackedTree(t)
        inCone(r) ==
            \/ Len(r) = 1 /\ tracked[r].kind = "file"
            \/ r = EXAMPLES
            \/ Len(r) = 2 /\ IsPrefix(EXAMPLES, r) /\ tracked[r].kind = "file"
            \/ IsPrefix(ERC20_COUNTER, r)
    IN  MetaTree(t) @@ Restrict(tracked, {r \in DOMAIN tracked : inCone(r)})

---------------------------------------------------------------------------
(* The state at invocation. *)

\* the names `berry new` is run with: usable ones, and blank ones
Names == { <<"demo">>, <<"methods">>, <<" ">>, <<>> }

\* Path::new(name): the project directory, relative to the working directory
Root == <<name>>

\* what the working directory holds besides the project
OutsideTree ==
    (<<>> :> DirNode)
    @@ (R1("notes.txt") :> FileNode(<<"notes", NL>>))
    @@ (R1("Cargo.toml") :> FileNode(<<STEEL, WORKSPACE, CLOSE, NL>>))
    @@ (R1("foundry.toml") :> FileNode(<<PROFILE, NL, LIBS_OLD, NL>>))
    @@ (R1("remappings.txt") :> FileNode(FORGE_OLD \o <<NL>>))
    @@ (R1("lib") :> DirNode)
    @@ (R2("lib", "vendored") :> FileNode(<<"vendored", NL>>))

\* what may already sit at the project path
Occupants(n) ==
    { <<>>,
      (<<n>> :> FileNode(<<"mine", NL>>)),
      (<<n>> :> DirNode) @@ (<<n, <<"keep.txt">> >> :> FileNode(<<"mine", NL>>)) }

Ev(step, ev) == [step |-> step, ev |-> ev]

\* whether main has reported a failure
Failed == diag # "none"

InitNew ==
    /\ cmd = "new"
    /\ name \in Names
    /\ tmpl \in Templates
    /\ \E occ \in Occupants(name) : fs = occ @@ OutsideTree
    /\ dirArg = <<>>
    /\ envKey = FALSE
    /\ pc = "probe"
    /\ cwd = <<>>
    /\ todo = {}
    /\ exitCode = -1
    /\ diag = "none"
    /\ log = <<>>
    /\ fs0 = fs
    /\ cloned = <<>>
    /\ target = <<>>
    /\ hist = <<>>

---------------------------------------------------------------------------
(* main, Commands::New: the probes and the two precondition checks. *)

\* `return` from main
Return ==
    /\ pc' = "exit"
    /\ exitCode' = 0

\* check_rust, check_foundry, check_risc0, then `if !all_deps_ok { return; }`
MainProbe ==
    /\ cmd = "new" /\ pc = "probe"
    /\ \E rust \in BOOLEAN, foundry \in BOOLEAN, risc0 \in BOOLEAN :
          LET all_deps_ok == rust /\ foundry /\ risc0
          IN  IF all_deps_ok
              THEN pc' = "validate" /\ UNCHANGED <<exitCode, diag>>
              ELSE Return /\ diag' = "dependency missing"
    /\ UNCHANGED <<cmd, name, dirArg, envKey, tmpl, fs, cwd, todo, log, fs0,
                   cloned, target, hist>>

\* the name tested for emptiness as given, without trim()
MainValidateNameUntrimmed ==
    /\ cmd = "new" /\ pc = "validate"
    /\ IF name = <<>>
       THEN Return /\ diag' = "Folder name cannot be empty"
       ELSE pc' = "exists" /\ UNCHANGED <<exitCode, diag>>
    /\ UNCHANGED <<cmd, name, dirArg, envKey, tmpl, fs, cwd, todo, log, fs0,
                   cloned, target, hist>>

\* `if name.trim().is_empty() { ...; return; }`
MainValidateName ==
    /\ cmd = "new" /\ pc = "validate"
    /\ IF Trim(name) = <<>>
       THEN Return /\ diag' = "Folder name cannot be empty"
       ELSE pc' = "exists" /\ UNCHANGED <<exitCode, diag>>
    /\ UNCHANGED <<cmd, name, dirArg, envKey, tmpl, fs, cwd, todo, log, fs0,
                   cloned, target, hist>>

\* main without its check of the path
MainCheckExistsOmitted ==
    /\ cmd = "new" /\ pc = "exists"
    /\ pc' = "init"
    /\ UNCHANGED <<cmd, name, dirArg, envKey, tmpl, fs, cwd, todo, exitCode,
                   diag, log, fs0, cloned, target, hist>>

\* `if Path::new(&name).exists() { ...; return; }`
MainCheckExists ==
    /\ cmd = "new" /\ pc = "exists"
    /\ IF Exists(fs, Root)
       THEN Return /\ diag' = "already exists"
       ELSE pc' = "init" /\ UNCHANGED <<exitCode, diag>>
    /\ UNCHANGED <<cmd, name, dirArg, envKey, tmpl, fs, cwd, todo, log, fs0,
                   cloned, target, hist>>

---------------------------------------------------------------------------
(* init_project.  A step that fails returns its error through `?` to       *)
(* main's Err arm, which reports it and goes on to the cleanup.            *)

Propagate ==
    /\ pc' = "cleanup"
    /\ diag' = "Error initializing project"

\* a step's failure: the error propagates
StepErr(step, evs) ==
    /\ Propagate
    /\ log' = log \o evs \o <<Ev(step, "err")>>

\* a step's success: the next step is reached
StepOk(step, evs, next) ==
    /\ pc' = next
    /\ log' = log \o evs \o <<Ev(step, "ok")>>
    /\ UNCHANGED diag

\* a sub-step of a step went through: the step goes on
StepOn(evs, next) ==
    /\ pc' = next
    /\ log' = log \o evs
    /\ UNCHANGED diag

\* `if Path::new(name).exists() { return Err(..) }`
InitProjectCheck ==
    /\ cmd = "new" /\ pc = "init"
    /\ IF Exists(fs, Root)
       THEN Propagate
       ELSE pc' = "clone" /\ UNCHANGED diag
    /\ UNCHANGED <<cmd, name, dirArg, envKey, tmpl, fs, cwd, todo, exitCode,
                   log, fs0, cloned, target, hist>>

\* clone_repository: a failed clone leaves nothing, or what it had fetched
CloneRepository ==
    /\ cmd = "new" /\ pc = "clone"
    /\ \/ /\ fs' = Graft(fs, Root, CloneTree(tmpl))
          /\ cloned' = fs'
          /\ StepOk("Clone", <<Ev("Clone", "start")>>, "checkout")
       \/ /\ fs' \in {fs, Graft(fs, Root, MetaTree(NoTemplate))}
          /\ cloned' = cloned
          /\ StepErr("Clone", <<Ev("Clone", "start")>>)
    /\ UNCHANGED <<cmd, name, dirArg, envKey, tmpl, cwd, todo, exitCode, fs0,
                   target, hist>>

\* the checkout with its result dropped instead of propagated by `?`
CheckoutUnpropagated ==
    /\ cmd = "new" /\ pc = "checkout"
    /\ \/ StepOk("Checkout", <<Ev("Checkout", "start")>>, "sparse_init")
       \/ /\ pc' = "sparse_init"
          /\ log' = log \o <<Ev("Checkout", "start"), Ev("Checkout", "err")>>
          /\ UNCHANGED diag
    /\ UNCHANGED <<cmd, name, dirArg, envKey, tmpl, fs, cwd, todo, exitCode,
                   fs0, cloned, target, hist>>

\* run_git_command(name, ["checkout", "release-1.3"]): the clone already
\* holds the release branch's tree
Checkout ==
    /\ cmd = "new" /\ pc = "checkout"
    /\ \/ StepOk("Checkout", <<Ev("Checkout", "start")>>, "sparse_init")
       \/ StepErr("Checkout", <<Ev("Checkout", "start")>>)
    /\ UNCHANGED <<cmd, name, dirArg, envKey, tmpl, fs, cwd, todo, exitCode,
                   fs0, cloned, target, hist>>

\* setup_sparse_checkout, first command: sparse-checkout init --cone
SparseInit ==
    /\ cmd = "new" /\ pc = "sparse_init"
    /\ \/ /\ fs' = Graft(RemoveTree(fs, Root), Root, ConeInitTree(tmpl))
          /\ StepOn(<<Ev("SparseFilter", "start")>>, "sparse_set")
       \/ /\ fs' = fs
          /\ StepErr("SparseFilter", <<Ev("SparseFilter", "start")>>)
    /\ UNCHANGED <<cmd, name, dirArg, envKey, tmpl, cwd, todo, exitCode, fs0,
                   cloned, target, hist>>

\* setup_sparse_checkout, second command: sparse-checkout set examples/erc20-counter
SparseSet ==
    /\ cmd = "new" /\ pc = "sparse_set"
    /\ \/ /\ fs' = Graft(RemoveTree(fs, Root), Root, ConeSetTree(tmpl))
          /\ StepOk("SparseFilter", <<>>, "rel_move")
       \/ /\ fs' = fs
          /\ StepErr("SparseFilter", <<>>)
    /\ UNCHANGED <<cmd, name, dirArg, envKey, tmpl, cwd, todo, exitCode, fs0,
                   cloned, target, hist>>

---------------------------------------------------------------------------
(* setup_project_files. *)

Erc20Path    == Root \o ERC20_COUNTER
ExamplesPath == Root \o EXAMPLES
TempCounterPath == Join(Root, <<"erc20-counter">>)

\* the renames of a set of entries into the directory dir, one after another
RECURSIVE MoveAll(_, _, _)
MoveAll(f, entries, dir) ==
    IF entries = {} THEN f
    ELSE LET e == CHOOSE x \in entries : TRUE
         IN  MoveAll(MoveTree(f, e, Join(dir, FileName(e))), entries \ {e}, dir)

\* the first move with an absent example treated as an error
RelocateMoveExampleStrict ==
    /\ cmd = "new" /\ pc = "rel_move"
    /\ fs' = IF CanRename(fs, Erc20Path, TempCounterPath)
             THEN MoveTree(fs, Erc20Path, TempCounterPath) ELSE fs
    /\ IF CanRename(fs, Erc20Path, TempCounterPath)
       THEN StepOn(<<Ev("RelocateFiles", "start")>>, "rel_rmex")
       ELSE StepErr("RelocateFiles", <<Ev("RelocateFiles", "start")>>)
    /\ UNCHANGED <<cmd, name, dirArg, envKey, tmpl, cwd, todo, exitCode, fs0,
                   cloned, target, hist>>

\* "Move erc20-counter out of examples/"
RelocateMoveExample ==
    /\ cmd = "new" /\ pc = "rel_move"
    /\ IF Exists(fs, Erc20Path)
       THEN \/ /\ CanRename(fs, Erc20Path, TempCounterPath)
               /\ fs' = MoveTree(fs, Erc20Path, TempCounterPath)
               /\ StepOn(<<Ev("RelocateFiles", "start")>>, "rel_rmex")
            \/ /\ fs' = fs
               /\ StepErr("RelocateFiles", <<Ev("RelocateFiles", "start")>>)
       ELSE /\ fs' = fs
            /\ StepOn(<<Ev("RelocateFiles", "start")>>, "rel_rmex")
    /\ UNCHANGED <<cmd, name, dirArg, envKey, tmpl, cwd, todo, exitCode, fs0,
                   cloned, target, hist>>

\* the relocation without the removal of examples/
RelocateKeepExamples ==
    /\ cmd = "new" /\ pc = "rel_rmex"
    /\ fs' = fs
    /\ \/ StepOn(<<>>, "rel_delroot")
       \/ StepErr("RelocateFiles", <<>>)
    /\ UNCHANGED <<cmd, name, dirArg, envKey, tmpl, cwd, todo, exitCode, fs0,
                   cloned, target, hist>>

\* "Remove examples directory"
RelocateRemoveExamples ==
    /\ cmd = "new" /\ pc = "rel_rmex"
    /\ IF Exists(fs, ExamplesPath)
       THEN \/ /\ fs' = RemoveTree(fs, ExamplesPath)
               /\ StepOn(<<>>, "rel_delroot")
            \/ /\ fs' = fs
               /\ StepErr("RelocateFiles", <<>>)
       ELSE /\ fs' = fs
            /\ StepOn(<<>>, "rel_delroot")
    /\ UNCHANGED <<cmd, name, dirArg, envKey, tmpl, cwd, todo, exitCode, fs0,
                   cloned, target, hist>>

\* the files the deletion would reach were it run after the move-in: the
\* root's own and the example's
RootFilesAfterMoveIn(f) ==
    {q \in Entries(f, Root) \cup Entries(f, TempCounterPath) : IsFile(f, q)}

\* the entries of the project root for which path.is_file() holds
RootFiles(f) == {q \in Entries(f, Root) : IsFile(f, q)}

\* the relocation without the deletion of the root's files
RelocateKeepRootFiles ==
    /\ cmd = "new" /\ pc = "rel_delroot"
    /\ fs' = fs
    /\ \/ StepOn(<<>>, "rel_movein")
       \/ StepErr("RelocateFiles", <<>>)
    /\ UNCHANGED <<cmd, name, dirArg, envKey, tmpl, cwd, todo, exitCode, fs0,
                   cloned, target, hist>>

\* "Delete files in root directory": all of them, or an error part-way
RelocateDeleteRootFiles ==
    /\ cmd = "new" /\ pc = "rel_delroot"
    /\ \/ /\ fs' = Restrict(fs, DOMAIN fs \ RootFiles(fs))
          /\ StepOn(<<>>, "rel_movein")
       \/ /\ \E gone \in SUBSET RootFiles(fs) :
                /\ gone = {} \/ gone # RootFiles(fs)
                /\ fs' = Restrict(fs, DOMAIN fs \ gone)
          /\ StepErr("RelocateFiles", <<>>)
    /\ UNCHANGED <<cmd, name, dirArg, envKey, tmpl, cwd, todo, exitCode, fs0,
                   cloned, target, hist>>

\* "Move all contents from erc20-counter to root": all of them, or an error
\* part-way; skipped with the rest of the step when the directory is absent
RelocateMoveIn ==
    /\ cmd = "new" /\ pc = "rel_movein"
    /\ IF Exists(fs, TempCounterPath)
       THEN LET entries == Entries(fs, TempCounterPath)
                movable(e) == CanRename(fs, e, Join(Root, FileName(e)))
            IN  \/ /\ \A e \in entries : movable(e)
                   /\ fs' = MoveAll(fs, entries, Root)
                   /\ StepOn(<<>>, "rel_rmtemp")
                \/ /\ \E moved \in SUBSET entries :
                         /\ moved = {} \/ moved # entries
                         /\ \A e \in moved : movable(e)
                         /\ fs' = MoveAll(fs, moved, Root)
                   /\ StepErr("RelocateFiles", <<>>)
       ELSE /\ fs' = fs
            /\ StepOk("RelocateFiles", <<>>, "cargo")
    /\ UNCHANGED <<cmd, name, dirArg, envKey, tmpl, cwd, todo, exitCode, fs0,
                   cloned, target, hist>>

\* "Remove the now-empty erc20-counter directory"
RelocateRemoveTemp ==
    /\ cmd = "new" /\ pc = "rel_rmtemp"
    /\ \/ /\ fs' = RemoveTree(fs, TempCounterPath)
          /\ StepOk("RelocateFiles", <<>>, "cargo")
       \/ /\ fs' = fs
          /\ StepErr("RelocateFiles", <<>>)
    /\ UNCHANGED <<cmd, name, dirArg, envKey, tmpl, cwd, todo, exitCode, fs0,
                   cloned, target, hist>>

---------------------------------------------------------------------------
(* update_cargo_dependencies, visit_cargo_files, update_cargo_file. *)

\* a visit of the directory's own entries only, with no descent
ManifestsTopLevel(f, dir) ==
    IF IsDir(f, dir)
    THEN {q \in Entries(f, dir) : IsFile(f, q) /\ FileName(q) = <<"Cargo.toml">>}
    ELSE {}

\* the files visit_cargo_files(dir) reaches: not a directory, named Cargo.toml
Manifests(f, dir) ==
    IF IsDir(f, dir)
    THEN {q \in Under(f, dir) : IsFile(f, q) /\ FileName(q) = <<"Cargo.toml">>}
    ELSE {}

\* the walk rooted at the working directory
WalkRootCwd == cwd

\* the directory update_cargo_dependencies roots the walk at
WalkRoot == Root

\* update_cargo_file(path) when it succeeds
UpdateCargoFile(f, path) ==
    WriteFile(f, path, UpdateCargoContent(path, f[path].content))

\* what a failed read-modify-write leaves: the file as it was (open or read
\* failed, or File::create failed), or truncated (write_all failed)
FailedWrite(f, path) == {f, WriteFile(f, path, <<>>)}

\* update_cargo_dependencies enters the walk
CargoWalkStart ==
    /\ cmd = "new" /\ pc = "cargo"
    /\ todo' = Manifests(fs, WalkRoot)
    /\ StepOn(<<Ev("RewriteManifests", "start")>>, "cargo_visit")
    /\ UNCHANGED <<cmd, name, dirArg, envKey, tmpl, fs, cwd, exitCode, fs0,
                   cloned, target, hist>>

\* the walk reaches one more manifest (read_dir fixes no order), fails on an
\* entry, or is through
CargoVisit ==
    /\ cmd = "new" /\ pc = "cargo_visit"
    /\ IF todo = {}
       THEN /\ UNCHANGED <<fs, todo>>
            /\ StepOk("RewriteManifests", <<>>, "foundry")
       ELSE \/ \E path \in todo :
                 \/ /\ fs' = UpdateCargoFile(fs, path)
                    /\ todo' = todo \ {path}
                    /\ StepOn(<<>>, "cargo_visit")
                 \/ /\ fs' \in FailedWrite(fs, path)
                    /\ todo' = {}
                    /\ StepErr("RewriteManifests", <<>>)
            \/ /\ UNCHANGED fs
               /\ todo' = {}
               /\ StepErr("RewriteManifests", <<>>)
    /\ UNCHANGED <<cmd, name, dirArg, envKey, tmpl, cwd, exitCode, fs0,
                   cloned, target, hist>>

---------------------------------------------------------------------------
(* update_foundry_config and update_remappings. *)

FoundryPath    == Join(Root, <<"foundry.toml">>)
RemappingsPath == Join(Root, <<"remappings.txt">>)

\* update_foundry_config followed by update_remappings, the submodule step
\* left for later
UpdateFoundryConfigThenRemap ==
    /\ cmd = "new" /\ pc = "foundry"
    /\ IF ~Exists(fs, FoundryPath)
       THEN /\ fs' = fs
            /\ StepOk("RewriteBuildConfig",
                      <<Ev("RewriteBuildConfig", "start")>>, "remap")
       ELSE \/ /\ IsFile(fs, FoundryPath)
               /\ fs' = WriteFile(fs, FoundryPath,
                                  UpdateFoundryContent(fs[FoundryPath].content))
               /\ StepOk("RewriteBuildConfig",
                         <<Ev("RewriteBuildConfig", "start")>>, "remap")
            \/ /\ fs' \in FailedWrite(fs, FoundryPath)
               /\ StepErr("RewriteBuildConfig",
                          <<Ev("RewriteBuildConfig", "start")>>)
    /\ UNCHANGED <<cmd, name, dirArg, envKey, tmpl, cwd, todo, exitCode, fs0,
                   cloned, target, hist>>

\* update_foundry_config with a missing foundry.toml treated as an error
UpdateFoundryConfigStrict ==
    /\ cmd = "new" /\ pc = "foundry"
    /\ IF ~Exists(fs, FoundryPath)
       THEN /\ fs' = fs
            /\ StepErr("RewriteBuildConfig",
                       <<Ev("RewriteBuildConfig", "start")>>)
       ELSE \/ /\ IsFile(fs, FoundryPath)
               /\ fs' = WriteFile(fs, FoundryPath,
                                  UpdateFoundryContent(fs[FoundryPath].content))
               /\ StepOk("RewriteBuildConfig",
                         <<Ev("RewriteBuildConfig", "start")>>, "sub_lib")
            \/ /\ fs' \in FailedWrite(fs, FoundryPath)
               /\ StepErr("RewriteBuildConfig",
                          <<Ev("RewriteBuildConfig", "start")>>)
    /\ UNCHANGED <<cmd, name, dirArg, envKey, tmpl, cwd, todo, exitCode, fs0,
                   cloned, target, hist>>

\* update_foundry_config
UpdateFoundryConfig ==
    /\ cmd = "new" /\ pc = "foundry"
    /\ IF ~Exists(fs, FoundryPath)
       THEN /\ fs' = fs
            /\ StepOk("RewriteBuildConfig",
                      <<Ev("RewriteBuildConfig", "start")>>, "sub_lib")
       ELSE \/ /\ IsFile(fs, FoundryPath)
               /\ fs' = WriteFile(fs, FoundryPath,
                                  UpdateFoundryContent(fs[FoundryPath].content))
               /\ StepOk("RewriteBuildConfig",
                         <<Ev("RewriteBuildConfig", "start")>>, "sub_lib")
            \/ /\ fs' \in FailedWrite(fs, FoundryPath)
               /\ StepErr("RewriteBuildConfig",
                          <<Ev("RewriteBuildConfig", "start")>>)
    /\ UNCHANGED <<cmd, name, dirArg, envKey, tmpl, cwd, todo, exitCode, fs0,
                   cloned, target, hist>>

UpdateRemappings ==
    /\ cmd = "new" /\ pc = "remap"
    /\ IF ~Exists(fs, RemappingsPath)
       THEN /\ fs' = fs
            /\ StepOk("RewriteRemappings",
                      <<Ev("RewriteRemappings", "start")>>, "done")
       ELSE \/ /\ IsFile(fs, RemappingsPath)
               /\ fs' = WriteFile(fs, RemappingsPath,
                            UpdateRemappingsContent(fs[RemappingsPath].content))
               /\ StepOk("RewriteRemappings",
                         <<Ev("RewriteRemappings", "start")>>, "done")
            \/ /\ fs' \in FailedWrite(fs, RemappingsPath)
               /\ StepErr("RewriteRemappings",
                          <<Ev("RewriteRemappings", "start")>>)
    /\ UNCHANGED <<cmd, name, dirArg, envKey, tmpl, cwd, todo, exitCode, fs0,
                   cloned, target, hist>>

---------------------------------------------------------------------------
(* setup_git_submodules. *)

LibPath == Join(Root, <<"lib">>)
GitPath == Join(Root, <<".git">>)
GitmodulesPath == Join(Root, <<".gitmodules">>)

\* `git init` in the project directory
GitInit(f) ==
    WriteFile(CreateDirAll(f, GitPath), Join(GitPath, <<"HEAD">>), <<"ref">>)

\* `git submodule add <url> lib/<sub>`: the submodule is cloned under lib/ and
\* registered in the project's .gitmodules, which git creates when missing
SubmoduleAdd(f, sub) ==
    LET dir      == Join(LibPath, <<sub>>)
        cloneSub == WriteFile(CreateDirAll(f, dir), Join(dir, <<"README.md">>),
                              <<"# ", sub, NL>>)
        entries  == IF Exists(f, GitmodulesPath)
                    THEN f[GitmodulesPath].content ELSE <<>>
    IN  WriteFile(cloneSub, GitmodulesPath,
                  entries \o <<"[submodule]", sub, NL>>)

\* the lib directory created where missing, without the removal before it
SubmodulesResetLibKept ==
    /\ cmd = "new" /\ pc = "sub_lib"
    /\ \/ /\ fs' = CreateDirAll(fs, LibPath)
          /\ StepOn(<<Ev("EstablishSubmodules", "start")>>, "sub_git")
       \/ /\ fs' = fs
          /\ StepErr("EstablishSubmodules", <<Ev("EstablishSubmodules", "start")>>)
    /\ UNCHANGED <<cmd, name, dirArg, envKey, tmpl, cwd, todo, exitCode, fs0,
                   cloned, target, hist>>

\* "Clean up existing lib directory", then create_dir_all
SubmodulesResetLib ==
    /\ cmd = "new" /\ pc = "sub_lib"
    /\ \/ /\ fs' = CreateDirAll(RemoveTree(fs, LibPath), LibPath)
          /\ StepOn(<<Ev("EstablishSubmodules", "start")>>, "sub_git")
       \/ /\ fs' \in {fs, RemoveTree(fs, LibPath)}
          /\ StepErr("EstablishSubmodules", <<Ev("EstablishSubmodules", "start")>>)
    /\ UNCHANGED <<cmd, name, dirArg, envKey, tmpl, cwd, todo, exitCode, fs0,
                   cloned, target, hist>>

\* "Remove existing .git directory to start fresh"
SubmodulesRemoveGit ==
    /\ cmd = "new" /\ pc = "sub_git"
    /\ IF Exists(fs, GitPath)
       THEN \/ /\ fs' = RemoveTree(fs, GitPath)
               /\ StepOn(<<>>, "sub_init")
            \/ /\ fs' = fs
               /\ StepErr("EstablishSubmodules", <<>>)
       ELSE /\ fs' = fs
            /\ StepOn(<<>>, "sub_init")
    /\ UNCHANGED <<cmd, name, dirArg, envKey, tmpl, cwd, todo, exitCode, fs0,
                   cloned, target, hist>>

\* a run_git_command whose failure is not propagated: the step goes on
SubmodulesGitUnchecked(at, after, next) ==
    /\ cmd = "new" /\ pc = at
    /\ \/ /\ fs' = after
          /\ IF next = "remap"
             THEN StepOk("EstablishSubmodules", <<>>, next)
             ELSE StepOn(<<>>, next)
       \/ /\ fs' = fs
          /\ pc' = next
          /\ log' = Append(log, Ev("EstablishSubmodules", "err"))
          /\ UNCHANGED diag
    /\ UNCHANGED <<cmd, name, dirArg, envKey, tmpl, cwd, todo, exitCode, fs0,
                   cloned, target, hist>>

\* one run_git_command of the step at position at: it succeeds with the
\* effect after on the file system and goes on to next, or fails
SubmodulesGit(at, after, next) ==
    /\ cmd = "new" /\ pc = at
    /\ \/ /\ fs' = after
          /\ IF next = "remap"
             THEN StepOk("EstablishSubmodules", <<>>, next)
             ELSE StepOn(<<>>, next)
       \/ /\ fs' = fs
          /\ StepErr("EstablishSubmodules", <<>>)
    /\ UNCHANGED <<cmd, name, dirArg, envKey, tmpl, cwd, todo, exitCode, fs0,
                   cloned, target, hist>>

SubmodulesInit        == SubmodulesGit("sub_init", GitInit(fs), "sub_subinit")
SubmodulesSubInit     == SubmodulesGit("sub_subinit", fs, "sub_add_forge")
SubmodulesAddForge    ==
    SubmodulesGit("sub_add_forge", SubmoduleAdd(fs, "forge-std"), "sub_add_oz")
SubmodulesAddOz       ==
    SubmodulesGit("sub_add_oz", SubmoduleAdd(fs, "openzeppelin-contracts"),
                  "sub_add_risc0")
SubmodulesAddRisc0    ==
    SubmodulesGit("sub_add_risc0", SubmoduleAdd(fs, "risc0-ethereum"), "sub_update")
SubmodulesUpdate      == SubmodulesGit("sub_update", fs, "sub_reset")
SubmodulesReset       == SubmodulesGit("sub_reset", fs, "remap")

---------------------------------------------------------------------------
(* The end of init_project and main's two arms. *)

\* init_project returns Ok(()): main's `Ok(_) => ()`, and main ends
InitProjectDone ==
    /\ cmd = "new" /\ pc = "done"
    /\ Return
    /\ UNCHANGED <<cmd, name, dirArg, envKey, tmpl, fs, cwd, todo, diag, log,
                   fs0, cloned, target, hist>>

\* what `let _ = fs::remove_dir_all(&name)` may leave: the directory gone, or,
\* the call having failed (as it does on a plain file), the path as it was
CleanupOutcomes(f) ==
    IF ~Exists(f, Root) THEN {f}
    ELSE IF IsDir(f, Root) THEN {RemoveTree(f, Root), f}
    ELSE {f}

\* main's Err arm: "Clean up the directory if it was created", then return
MainCleanup ==
    /\ cmd = "new" /\ pc = "cleanup"
    /\ fs' \in CleanupOutcomes(fs)
    /\ log' = Append(log, Ev("Cleanup",
                 IF ~Exists(fs, Root) THEN "nothing to remove"
                 ELSE IF Exists(fs', Root) THEN "remove failed" ELSE "removed"))
    /\ Return
    /\ UNCHANGED <<cmd, name, dirArg, envKey, tmpl, cwd, todo, diag, fs0,
                   cloned, target, hist>>

---------------------------------------------------------------------------
(* run_setup and main's Commands::Setup arm. *)

\* a project directory as `berry setup` may find it
ProjectTree(withScript) ==
    (<<>> :> DirNode)
    @@ (R1("Cargo.toml") :> FileNode(<<"[workspace]", NL>>))
    @@ (IF withScript
        THEN (R1("e2e-test.sh") :> FileNode(<<"#!/bin/bash", NL>>))
        ELSE <<>>)

\* Setup { dir }: none (run inside the project), the project, a path that
\* does not exist, a path that is no directory
SetupArgs ==
    { [dir |-> <<>>,                 from |-> R1("demo")],
      [dir |-> << R1("demo") >>,     from |-> <<>>],
      [dir |-> << R1("missing") >>,  from |-> <<>>],
      [dir |-> << R1("notes.txt") >>, from |-> <<>>] }

InitSetup ==
    /\ cmd = "setup"
    /\ name = <<"demo">>
    /\ tmpl = NoTemplate
    /\ \E a \in SetupArgs : dirArg = a.dir /\ cwd = a.from
    /\ envKey \in BOOLEAN
    /\ \E withScript \in BOOLEAN :
          fs = Graft(OutsideTree, R1("demo"), ProjectTree(withScript))
    /\ pc = "setup_dir"
    /\ todo = {}
    /\ exitCode = -1
    /\ diag = "none"
    /\ log = <<>>
    /\ fs0 = fs
    /\ cloned = <<>>
    /\ target = <<>>
    /\ hist = <<>>

\* run_setup returns Err: main reports it and calls std::process::exit(1)
SetupErr ==
    /\ pc' = "exit"
    /\ diag' = "Error"
    /\ exitCode' = 1

\* a path relative to the working directory
Here(rel) == cwd \o rel

ENV_VARS ==
    << "export BONSAI_API_URL=https://api.bonsai.xyz", NL,
       "export ETH_WALLET_ADDRESS=0xf39Fd6e51aad88F6F4ce6aB8827279cffFb92266", NL,
       "export ETH_WALLET_PRIVATE_KEY=0xac0974bec39a17e36ba4a6b4d238ff944bacb478cbed5efcae784d7bf4f2ff80", NL,
       "export ETH_RPC_URL=http://localhost:8545", NL >>

API_KEY_PLACEHOLDER ==
    << NL, "# Get your Bonsai API key from https://bonsai.xyz/apply", NL,
       "# export BONSAI_API_KEY=your_api_key_here", NL >>

\* env_content with the placeholder pushed whatever the environment holds
EnvContentAlways(keySet) == ENV_VARS \o API_KEY_PLACEHOLDER

\* env_content
EnvContent(keySet) ==
    IF keySet THEN ENV_VARS ELSE ENV_VARS \o API_KEY_PLACEHOLDER

\* `if let Some(project_dir) = dir { ... env::set_current_dir(project_dir) }`
SetupChangeDir ==
    /\ cmd = "setup" /\ pc = "setup_dir"
    /\ IF dirArg = <<>>
       THEN pc' = "setup_script" /\ UNCHANGED <<cwd, exitCode, diag>>
       ELSE IF ~Exists(fs, dirArg[1]) THEN SetupErr /\ UNCHANGED cwd
       ELSE \/ /\ IsDir(fs, dirArg[1])
               /\ cwd' = dirArg[1]
               /\ pc' = "setup_script"
               /\ UNCHANGED <<exitCode, diag>>
            \/ SetupErr /\ UNCHANGED cwd
    /\ UNCHANGED <<cmd, name, dirArg, envKey, tmpl, fs, todo, log, fs0, cloned,
                   target, hist>>

\* run_setup without its check for the entry-point script
SetupCheckScriptOmitted ==
    /\ cmd = "setup" /\ pc = "setup_script"
    /\ pc' = "setup_build"
    /\ UNCHANGED <<cmd, name, dirArg, envKey, tmpl, fs, cwd, todo, exitCode,
                   diag, log, fs0, cloned, target, hist>>

\* `if !Path::new("e2e-test.sh").exists() { return Err(..) }`
SetupCheckScript ==
    /\ cmd = "setup" /\ pc = "setup_script"
    /\ IF ~Exists(fs, Here(R1("e2e-test.sh")))
       THEN SetupErr
       ELSE pc' = "setup_build" /\ UNCHANGED <<exitCode, diag>>
    /\ UNCHANGED <<cmd, name, dirArg, envKey, tmpl, fs, cwd, todo, log, fs0,
                   cloned, target, hist>>

\* sh -c "cargo build && forge build": the build leaves its output directory
SetupBuild ==
    /\ cmd = "setup" /\ pc = "setup_build"
    /\ \/ /\ fs' = CreateDirAll(fs, Here(R1("target")))
          /\ pc' = "setup_chmod"
          /\ log' = Append(log, Ev("build", "ok"))
          /\ UNCHANGED <<exitCode, diag>>
       \/ /\ fs' \in {fs, CreateDirAll(fs, Here(R1("target")))}
          /\ log' = Append(log, Ev("build", "err"))
          /\ SetupErr
    /\ UNCHANGED <<cmd, name, dirArg, envKey, tmpl, cwd, todo, fs0, cloned,
                   target, hist>>

\* chmod +x e2e-test.sh: a launch failure or a non-zero exit is an error
SetupChmodScript ==
    /\ cmd = "setup" /\ pc = "setup_chmod"
    /\ \/ /\ Exists(fs, Here(R1("e2e-test.sh")))
          /\ fs' = [fs EXCEPT ![Here(R1("e2e-test.sh"))].exec = TRUE]
          /\ pc' = "setup_env"
          /\ log' = Append(log, Ev("chmod script", "ok"))
          /\ UNCHANGED <<exitCode, diag>>
       \/ /\ fs' = fs
          /\ log' = Append(log, Ev("chmod script", "err"))
          /\ SetupErr
    /\ UNCHANGED <<cmd, name, dirArg, envKey, tmpl, cwd, todo, fs0, cloned,
                   target, hist>>

\* fs::write("env.sh", env_content)
SetupWriteEnv ==
    /\ cmd = "setup" /\ pc = "setup_env"
    /\ \/ /\ fs' = WriteFile(fs, Here(R1("env.sh")), EnvContent(envKey))
          /\ pc' = "setup_chmod_env"
          /\ UNCHANGED <<exitCode, diag>>
       \/ /\ fs' \in FailedWrite(fs, Here(R1("env.sh")))
          /\ SetupErr
    /\ UNCHANGED <<cmd, name, dirArg, envKey, tmpl, cwd, todo, log, fs0, cloned,
                   target, hist>>

\* chmod +x env.sh: only a launch failure is an error; the exit status of
\* the command is not looked at
SetupChmodEnv ==
    /\ cmd = "setup" /\ pc = "setup_chmod_env"
    /\ \/ /\ fs' = [fs EXCEPT ![Here(R1("env.sh"))].exec = TRUE]
          /\ pc' = "setup_done"
          /\ log' = Append(log, Ev("chmod env", "ok"))
          /\ UNCHANGED <<exitCode, diag>>
       \/ /\ fs' = fs
          /\ pc' = "setup_done"
          /\ log' = Append(log, Ev("chmod env", "err"))
          /\ UNCHANGED <<exitCode, diag>>
       \/ /\ fs' = fs
          /\ log' = Append(log, Ev("chmod env", "err"))
          /\ SetupErr
    /\ UNCHANGED <<cmd, name, dirArg, envKey, tmpl, cwd, todo, fs0, cloned,
                   target, hist>>

\* run_setup returns Ok(()): main ends
SetupDone ==
    /\ cmd = "setup" /\ pc = "setup_done"
    /\ Return
    /\ UNCHANGED <<cmd, name, dirArg, envKey, tmpl, fs, cwd, todo, diag, log,
                   fs0, cloned, target, hist>>

---------------------------------------------------------------------------
(* The two commands. *)

Init == InitNew \/ InitSetup

Next ==
    \/ MainProbe
    \/ MainValidateName
    \/ MainCheckExists
    \/ InitProjectCheck
    \/ CloneRepository
    \/ Checkout
    \/ SparseInit
    \/ SparseSet
    \/ RelocateMoveExample
    \/ RelocateRemoveExamples
    \/ RelocateDeleteRootFiles
    \/ RelocateMoveIn
    \/ RelocateRemoveTemp
    \/ CargoWalkStart
    \/ CargoVisit
    \/ UpdateFoundryConfig
    \/ SubmodulesResetLib
    \/ SubmodulesRemoveGit
    \/ SubmodulesInit
    \/ SubmodulesSubInit
    \/ SubmodulesAddForge
    \/ SubmodulesAddOz
    \/ SubmodulesAddRisc0
    \/ SubmodulesUpdate
    \/ SubmodulesReset
    \/ UpdateRemappings
    \/ InitProjectDone
    \/ MainCleanup
    \/ SetupChangeDir
    \/ SetupCheckScript
    \/ SetupBuild
    \/ SetupChmodScript
    \/ SetupWriteEnv
    \/ SetupChmodEnv
    \/ SetupDone

Spec == Init /\ [][Next]_vars

---------------------------------------------------------------------------
(* init_project without its call of setup_sparse_checkout: the variant the  *)
(* specification compares the pipeline with.                                *)

\* the step left out: the full clone goes to the relocation as it is
SkipSparseFilter ==
    /\ cmd = "new" /\ pc = "sparse_init"
    /\ pc' = "rel_move"
    /\ UNCHANGED <<cmd, name, dirArg, envKey, tmpl, fs, cwd, todo, exitCode,
                   diag, log, fs0, cloned, target, hist>>

NextNoSparse ==
    \/ MainProbe
    \/ MainValidateName
    \/ MainCheckExists
    \/ InitProjectCheck
    \/ CloneRepository
    \/ Checkout
    \/ SkipSparseFilter
    \/ RelocateMoveExample
    \/ RelocateRemoveExamples
    \/ RelocateDeleteRootFiles
    \/ RelocateMoveIn
    \/ RelocateRemoveTemp
    \/ CargoWalkStart
    \/ CargoVisit
    \/ UpdateFoundryConfig
    \/ SubmodulesResetLib
    \/ SubmodulesRemoveGit
    \/ SubmodulesInit
    \/ SubmodulesSubInit
    \/ SubmodulesAddForge
    \/ SubmodulesAddOz
    \/ SubmodulesAddRisc0
    \/ SubmodulesUpdate
    \/ SubmodulesReset
    \/ UpdateRemappings
    \/ InitProjectDone
    \/ MainCleanup

SpecNoSparse == InitNew /\ [][NextNoSparse]_vars

\* The steps after the sparse checkout as functions of the tree they find,
\* each when it succeeds.

\* setup_project_files
RelocatedTree(f) ==
    LET f1 == IF Exists(f, Erc20Path)
              THEN MoveTree(f, Erc20Path, TempCounterPath) ELSE f
        f2 == RemoveTree(f1, ExamplesPath)
        f3 == Restrict(f2, DOMAIN f2 \ RootFiles(f2))
    IN  IF Exists(f3, TempCounterPath)
        THEN RemoveTree(MoveAll(f3, Entries(f3, TempCounterPath), Root),
                        TempCounterPath)
        ELSE f3

\* update_cargo_dependencies
RECURSIVE RewriteAll(_, _)
RewriteAll(f, paths) ==
    IF paths = {} THEN f
    ELSE LET q == CHOOSE x \in paths : TRUE
         IN  RewriteAll(UpdateCargoFile(f, q), paths \ {q})

\* update_foundry_config, setup_git_submodules, update_remappings
ConfiguredTree(f) ==
    LET f1 == IF IsFile(f, FoundryPath)
              THEN WriteFile(f, FoundryPath,
                             UpdateFoundryContent(f[FoundryPath].content))
              ELSE f
        f2 == GitInit(RemoveTree(CreateDirAll(RemoveTree(f1, LibPath), LibPath),
                                 GitPath))
        f3 == SubmoduleAdd(SubmoduleAdd(SubmoduleAdd(f2, "forge-std"),
                                        "openzeppelin-contracts"),
                           "risc0-ethereum")
    IN  IF IsFile(f3, RemappingsPath)
        THEN WriteFile(f3, RemappingsPath,
                       UpdateRemappingsContent(f3[RemappingsPath].content))
        ELSE f3

\* the project a successful init_project makes of the tree the sparse
\* checkout leaves
SparseFinalTree ==
    LET sparse    == Graft(fs0, Root, ConeSetTree(tmpl))
        relocated == RelocatedTree(sparse)
    IN  ConfiguredTree(RewriteAll(relocated, Manifests(relocated, WalkRoot)))

---------------------------------------------------------------------------
(* `new` run while another process works in the same directory: between    *)
(* two steps of main it may create a directory at the project path.        *)

\* what the other process puts at the project path
OthersTree ==
    (<<>> :> DirNode) @@ (R1("theirs.txt") :> FileNode(<<"theirs", NL>>))

\* the other process creates the project path, before main's check of it or
\* between that check and init_project's
OtherActorCreates ==
    /\ cmd = "new"
    /\ pc \in {"probe", "validate", "exists", "init"}
    /\ ~Exists(fs, Root)
    /\ fs' = Graft(fs, Root, OthersTree)
    /\ log' = Append(log, Ev("OtherActor", "created"))
    /\ UNCHANGED <<cmd, name, dirArg, envKey, tmpl, pc, cwd, todo, exitCode,
                   diag, fs0, cloned, target, hist>>

NextRace ==
    \/ OtherActorCreates
    \/ MainProbe
    \/ MainValidateName
    \/ MainCheckExists
    \/ InitProjectCheck
    \/ CloneRepository
    \/ Checkout
    \/ SparseInit
    \/ SparseSet
    \/ RelocateMoveExample
    \/ RelocateRemoveExamples
    \/ RelocateDeleteRootFiles
    \/ RelocateMoveIn
    \/ RelocateRemoveTemp
    \/ CargoWalkStart
    \/ CargoVisit
    \/ UpdateFoundryConfig
    \/ SubmodulesResetLib
    \/ SubmodulesRemoveGit
    \/ SubmodulesInit
    \/ SubmodulesSubInit
    \/ SubmodulesAddForge
    \/ SubmodulesAddOz
    \/ SubmodulesAddRisc0
    \/ SubmodulesUpdate
    \/ SubmodulesReset
    \/ UpdateRemappings
    \/ InitProjectDone
    \/ MainCleanup

SpecRace == InitNew /\ [][NextRace]_vars

---------------------------------------------------------------------------
(* The rewrites on their own: a file of enumerated content, to which       *)
(* update_cargo_file or update_remappings is applied MaxPasses times.      *)

\* the fragments enumerated manifests are built from: the declarations the
\* rules match, the declarations they produce, and pieces of both
ManifestParts ==
    { <<BUILD, PATH_BUILD, CLOSE>>, <<CONTRACTS, PATH_CONTRACTS, CLOSE>>,
      <<STEEL, PATH_STEEL2, CLOSE>>, <<STEEL, PATH_STEEL3, CLOSE>>,
      <<STEEL, PATH_STEEL4, CLOSE>>, <<CONTRACTS, WORKSPACE, CLOSE>>,
      <<STEEL, WORKSPACE, CLOSE>>, <<STEEL, WORKSPACE, HOST>>,
      <<BUILD, WORKSPACE, CLOSE>>, <<STEEL, GIT, CLOSE>>, <<STEEL, GIT, HOST>>,
      <<STEEL>>, <<WORKSPACE>>, <<GIT>>, <<CLOSE>>, <<HOST>>, <<NL>> }

\* the manifests a pass is applied to: the project's own, one under apps/,
\* the methods manifest
ManifestTargets ==
    { << <<"demo">>, <<"Cargo.toml">> >>,
      << <<"demo">>, <<"apps">>, <<"Cargo.toml">> >>,
      << <<"demo">>, <<"methods">>, <<"Cargo.toml">> >> }

\* the fragments enumerated remapping files are built from
RemapParts ==
    { FORGE_OLD, OZ_OLD, RISC0_OLD, OZ_NEW, OZ_REMAPPING,
      <<"=", "lib/", "openzeppelin-contracts/", "contracts">>,
      <<"contracts">>, <<NL>> }

InitRewrite(kind, targets, contents) ==
    /\ cmd = kind
    /\ name = <<"demo">>
    /\ tmpl = NoTemplate
    /\ target \in targets
    /\ \E c \in contents :
          /\ fs = WriteFile(CreateDirAll(OutsideTree, Parent(target)), target, c)
          /\ hist = <<c>>
    /\ dirArg = <<>>
    /\ envKey = FALSE
    /\ pc = "rewrite"
    /\ cwd = <<>>
    /\ todo = {}
    /\ exitCode = -1
    /\ diag = "none"
    /\ log = <<>>
    /\ fs0 = fs
    /\ cloned = <<>>

InitCargo ==
    InitRewrite("update_cargo_file", ManifestTargets,
                Concats(ManifestParts, MaxManifestParts))

InitRemap ==
    InitRewrite("update_remappings", {<< <<"demo">>, <<"remappings.txt">> >>},
                Concats(RemapParts, MaxRemapParts))

\* one more successful update_cargo_file(target)
RewriteCargoPass ==
    /\ cmd = "update_cargo_file" /\ pc = "rewrite"
    /\ Len(hist) <= MaxPasses
    /\ fs' = UpdateCargoFile(fs, target)
    /\ hist' = Append(hist, fs'[target].content)
    /\ UNCHANGED <<cmd, name, dirArg, envKey, tmpl, pc, cwd, todo, exitCode,
                   diag, log, fs0, cloned, target>>

\* one more successful update_remappings on the target
RewriteRemapPass ==
    /\ cmd = "update_remappings" /\ pc = "rewrite"
    /\ Len(hist) <= MaxPasses
    /\ fs' = WriteFile(fs, target, UpdateRemappingsContent(fs[target].content))
    /\ hist' = Append(hist, fs'[target].content)
    /\ UNCHANGED <<cmd, name, dirArg, envKey, tmpl, pc, cwd, todo, exitCode,
                   diag, log, fs0, cloned, target>>

\* the fragments enumerated build-config files are built from
FoundryParts ==
    { <<PROFILE>>, <<"[profile.ci]">>, <<LIBS_OLD>>, <<LIBS_NEW>>,
      <<AUTO_DETECT>>, <<NL>> }

InitFoundry ==
    InitRewrite("update_foundry_config", {<< <<"demo">>, <<"foundry.toml">> >>},
                Concats(FoundryParts, MaxFoundryParts))

\* one more successful update_foundry_config on the target
RewriteFoundryPass ==
    /\ cmd = "update_foundry_config" /\ pc = "rewrite"
    /\ Len(hist) <= MaxPasses
    /\ fs' = WriteFile(fs, target, UpdateFoundryContent(fs[target].content))
    /\ hist' = Append(hist, fs'[target].content)
    /\ UNCHANGED <<cmd, name, dirArg, envKey, tmpl, pc, cwd, todo, exitCode,
                   diag, log, fs0, cloned, target>>

SpecFoundry == InitFoundry /\ [][RewriteFoundryPass]_vars

SpecCargo == InitCargo /\ [][RewriteCargoPass]_vars

SpecRemap == InitRemap /\ [][RewriteRemapPass]_vars

---------------------------------------------------------------------------
(* The properties checked. *)

\* the order init_project runs its steps in
StepOrder ==
    << "Clone", "Checkout", "SparseFilter", "RelocateFiles",
       "RewriteManifests", "RewriteBuildConfig", "EstablishSubmodules",
       "RewriteRemappings" >>

StepFailed == \E i \in DOMAIN log : log[i].ev = "err"

\* C1: in every run of the bootstrap a step starts only as the next one of the
\* fixed order, after every earlier step has reported success, at most once,
\* and never after a step has reported failure.
C1_StepsInOrder ==
    cmd = "new" =>
        \A i \in DOMAIN log :
            log[i].ev = "start" =>
                \E k \in DOMAIN StepOrder :
                    /\ log[i].step = StepOrder[k]
                    /\ \A j \in 1..(k - 1) :
                          \E h \in 1..(i - 1) : log[h] = Ev(StepOrder[j], "ok")
                    /\ \A h \in 1..(i - 1) : log[h].ev # "err" /\ log[h] # log[i]

\* a run in which seven steps succeeded, the submodule step failed and main
\* has returned
C1_Witness ==
    /\ cmd = "new" /\ pc = "exit"
    /\ \E i \in DOMAIN log : log[i] = Ev("EstablishSubmodules", "err")
    /\ \E i \in DOMAIN log : log[i] = Ev("RewriteBuildConfig", "ok")

\* C2: when `new` has terminated after the failure of a bootstrap step, the
\* project directory does not exist.
C2_NoDirectoryAfterFailure ==
    (cmd = "new" /\ pc = "exit" /\ StepFailed) => ~Exists(fs, Root)

\* C3: if the project path exists when `new` is invoked, nothing on the file
\* system is ever changed, no step of the bootstrap is started, and the
\* command ends with a failure reported.
C3_ExistingPathUntouched ==
    (cmd = "new" /\ Exists(fs0, Root)) =>
        /\ fs = fs0
        /\ log = <<>>
        /\ pc = "exit" => Failed

\* main has returned on finding a directory at the project path
C3_Witness ==
    /\ cmd = "new" /\ pc = "exit"
    /\ diag = "already exists"
    /\ IsDir(fs0, Root)

\* C4: a command that has terminated after reporting a failure has a
\* non-zero exit code.
C4_FailureExitsNonZero ==
    (pc = "exit" /\ Failed) => exitCode # 0

\* C5: applying update_cargo_file again to a manifest it has rewritten leaves
\* the content as the first pass wrote it, for every content and path.
C5_ManifestRewriteIdempotent ==
    cmd = "update_cargo_file" =>
        \A i \in 2..(Len(hist) - 1) : hist[i + 1] = hist[i]

\* a manifest under apps/ that the first pass changed, rewritten twice
C5_Witness ==
    /\ cmd = "update_cargo_file"
    /\ Len(hist) = 3
    /\ IsUnderApps(target)
    /\ hist[2] # hist[1]

\* the steel declarations the general rules rewrite
SteelFormsWithoutFlag ==
    { <<STEEL, PATH_STEEL2, CLOSE>>, <<STEEL, PATH_STEEL3, CLOSE>>,
      <<STEEL, PATH_STEEL4, CLOSE>>, <<STEEL, WORKSPACE, CLOSE>> }
SteelFormWithFlag == <<STEEL, WORKSPACE, HOST>>

GeneralPass ==
    /\ cmd = "update_cargo_file"
    /\ Len(hist) >= 2
    /\ ~IsMethodsManifest(target)

\* C6 as claimed: under the general rules every steel declaration the rules
\* rewrite comes out with features = ["host"] when the path contains /apps/
\* and without it when the path does not.
C6_FlagIffApps ==
    (GeneralPass /\ hist[1] \in SteelFormsWithoutFlag \cup {SteelFormWithFlag}) =>
        hist[2] = IF IsUnderApps(target) THEN <<STEEL, GIT, HOST>>
                  ELSE <<STEEL, GIT, CLOSE>>

\* C6 as amended: a steel declaration without the flag comes out with it
\* exactly when the path contains /apps/; one that is written with
\* features = ["host"] keeps the flag on every path; outside /apps/ a pass
\* adds the flag nowhere, and under /apps/ it leaves no steel git declaration
\* without it.
C6_FlagIffAppsUnlessDeclared ==
    GeneralPass =>
        /\ hist[1] \in SteelFormsWithoutFlag =>
              hist[2] = IF IsUnderApps(target) THEN <<STEEL, GIT, HOST>>
                        ELSE <<STEEL, GIT, CLOSE>>
        /\ hist[1] = SteelFormWithFlag => hist[2] = <<STEEL, GIT, HOST>>
        /\ ~IsUnderApps(target) =>
              Count(hist[2], <<HOST>>) = Count(hist[1], <<HOST>>)
        /\ IsUnderApps(target) => ~Contains(hist[2], <<STEEL, GIT, CLOSE>>)

\* the declaration with the flag, rewritten in a manifest outside apps/
C6_Witness ==
    /\ GeneralPass
    /\ ~IsUnderApps(target)
    /\ hist[1] = SteelFormWithFlag

\* C7: a pass of update_remappings over a file that holds the openzeppelin-
\* contracts entry appends nothing (the file is the three substitutions'
\* result and ends as it ended); over a file that lacks it, the pass appends
\* exactly one copy and a newline, after a newline of its own only when the
\* content did not end in one.
C7_RemappingAddition ==
    (cmd = "update_remappings" /\ Len(hist) >= 2) =>
        LET c   == hist[1]
            out == hist[2]
        IN  IF Contains(c, OZ_REMAPPING)
            THEN /\ out = RemapRules(c)
                 /\ out[Len(out)] = c[Len(c)]
                 /\ Count(out, OZ_REMAPPING) = Count(c, OZ_REMAPPING)
            ELSE /\ out = RemapRules(c)
                          \o (IF EndsWith(c, <<NL>>) THEN <<>> ELSE <<NL>>)
                          \o OZ_REMAPPING \o <<NL>>
                 /\ Count(out, OZ_REMAPPING) = 1

\* a file without the entry and without a final newline, after one pass
C7_Witness ==
    /\ cmd = "update_remappings"
    /\ Len(hist) = 2
    /\ hist[1] # <<>>
    /\ ~Contains(hist[1], OZ_REMAPPING)
    /\ ~EndsWith(hist[1], <<NL>>)

\* the bootstrap has ended in success
Bootstrapped == cmd = "new" /\ pc = "exit" /\ ~Failed

\* the entry at p was moved in from the example directory of the clone
MovedInFromExample(p) ==
    LET ex == Erc20Path \o <<FileName(p)>>
    IN  /\ Exists(cloned, ex)
        /\ fs[p].content \in
              {cloned[ex].content, UpdateCargoContent(p, cloned[ex].content)}

\* C8 as claimed: after a successful bootstrap, where a plain file sat
\* directly at the project root in the fresh clone there is now nothing, or
\* the same-named entry moved in from the example directory.
C8_NoScaffoldFileLeft ==
    Bootstrapped =>
        \A p \in RootFiles(cloned) : Exists(fs, p) => MovedInFromExample(p)

\* C8 as amended: ... or, for .gitmodules, a new file that the submodule
\* registration of EstablishSubmodules wrote.
C8_NoScaffoldFileLeftButGitmodules ==
    Bootstrapped =>
        \A p \in RootFiles(cloned) :
            Exists(fs, p) =>
                \/ MovedInFromExample(p)
                \/ /\ p = GitmodulesPath
                   /\ fs[p].content # cloned[p].content
                   /\ \E i \in DOMAIN log : log[i] = Ev("EstablishSubmodules", "ok")

\* a successful bootstrap from a template with submodules whose example has
\* a README.md as the root has
C8_Witness ==
    /\ Bootstrapped
    /\ tmpl.shadow /\ tmpl.submodules
    /\ Exists(fs, Join(Root, <<"README.md">>))

\* C9: when foundry.toml (remappings.txt) is absent at the project root, the
\* rewrite step changes nothing on the file system, reports success, and the
\* pipeline goes on to the next step (the end of init_project).
C9_AbsentFileSkipped ==
    [][ /\ (cmd = "new" /\ pc = "foundry" /\ ~Exists(fs, FoundryPath)) =>
              /\ fs' = fs
              /\ pc' = "sub_lib"
              /\ log' = log \o <<Ev("RewriteBuildConfig", "start"),
                                 Ev("RewriteBuildConfig", "ok")>>
        /\ (cmd = "new" /\ pc = "remap" /\ ~Exists(fs, RemappingsPath)) =>
              /\ fs' = fs
              /\ pc' = "done"
              /\ log' = log \o <<Ev("RewriteRemappings", "start"),
                                 Ev("RewriteRemappings", "ok")>>
      ]_vars

\* both rewrite steps have been through with their file absent
C9_Witness ==
    /\ cmd = "new" /\ pc = "done"
    /\ ~Exists(fs, FoundryPath)
    /\ ~Exists(fs, RemappingsPath)
    /\ \E i \in DOMAIN log : log[i] = Ev("RewriteBuildConfig", "ok")

\* the paths outside the project directory
Outside(f) == {q \in DOMAIN f : ~IsPrefix(Root, q)}

\* C10: throughout `new`, every path outside the project directory is as it
\* was at invocation: the steps after the clone, and the cleanup, change
\* nothing but what is under the project directory.
C10_OutsideUnchanged ==
    cmd = "new" => Restrict(fs, Outside(fs)) = Restrict(fs0, Outside(fs0))

\* a run that cloned, rewrote manifests, failed later and cleaned up
C10_Witness ==
    /\ cmd = "new" /\ pc = "exit"
    /\ \E i \in DOMAIN log : log[i] = Ev("RewriteManifests", "ok")
    /\ \E i \in DOMAIN log : log[i] = Ev("Cleanup", "removed")

\* C11: whenever git init is about to run in EstablishSubmodules, the
\* project's lib directory exists and is empty and the project has no .git
\* directory, whatever the clone had put in either.
C11_CleanSlateAtGitInit ==
    (cmd = "new" /\ pc = "sub_init") =>
        /\ IsDir(fs, LibPath)
        /\ Under(fs, LibPath) = {LibPath}
        /\ Under(fs, GitPath) = {}

\* git init is about to run in a project whose clone had a populated lib/
\* and a .git directory
C11_Witness ==
    /\ cmd = "new" /\ pc = "sub_init"
    /\ Exists(cloned, Join(LibPath, <<"forge-std">>))
    /\ Exists(cloned, Join(GitPath, <<"HEAD">>))

\* the directory run_setup works in: the one named, or the working directory
SetupDir == IF dirArg = <<>> THEN cwd ELSE dirArg[1]

\* a precondition of run_setup does not hold at invocation
SetupPreconditionFails ==
    \/ dirArg # <<>> /\ ~Exists(fs0, dirArg[1])
    \/ ~Exists(fs0, Join(SetupDir, <<"e2e-test.sh">>))

\* C12: when the directory named to `setup` does not exist, or the directory
\* it works in has no e2e-test.sh, nothing is ever built, made executable or
\* written (the file system stays as it was and no process is run), and the
\* command ends in failure.
C12_SetupPreconditionNoEffect ==
    (cmd = "setup" /\ SetupPreconditionFails) =>
        /\ fs = fs0
        /\ log = <<>>
        /\ pc \in {"setup_dir", "setup_script", "exit"}
        /\ pc = "exit" => Failed /\ exitCode = 1

\* setup has ended on an existing directory that lacks the script
C12_Witness ==
    /\ cmd = "setup" /\ pc = "exit"
    /\ dirArg # <<>>
    /\ IsDir(fs0, dirArg[1])
    /\ cwd = dirArg[1]
    /\ ~Exists(fs0, Join(dirArg[1], <<"e2e-test.sh">>))

\* C13: in `setup`, once a process invocation (the build, chmod of the
\* script, chmod of env.sh) has failed, the command does not reach its
\* successful end: it ends with a failure reported.
C13_ProcessFailureAborts ==
    (cmd = "setup" /\ \E i \in DOMAIN log : log[i].ev = "err") =>
        /\ pc # "setup_done"
        /\ pc = "exit" => Failed

\* the positions of setup_git_submodules, in the order of its code
SubStepOrder ==
    << "sub_lib", "sub_git", "sub_init", "sub_subinit", "sub_add_forge",
       "sub_add_oz", "sub_add_risc0", "sub_update", "sub_reset", "remap" >>

Submodule(sub) == Join(LibPath, <<sub>>)

\* what the sub-steps before a position have left behind
SubStepsSoFar ==
    /\ pc = "sub_git" => Under(fs, LibPath) = {LibPath}
    /\ pc = "sub_init" => ~Exists(fs, GitPath)
    /\ pc = "sub_subinit" => IsDir(fs, GitPath) /\ Under(fs, LibPath) = {LibPath}
    /\ pc = "sub_add_forge" => Under(fs, LibPath) = {LibPath}
    /\ pc = "sub_add_oz" =>
          /\ IsDir(fs, Submodule("forge-std"))
          /\ ~Exists(fs, Submodule("openzeppelin-contracts"))
    /\ pc = "sub_add_risc0" =>
          /\ IsDir(fs, Submodule("openzeppelin-contracts"))
          /\ ~Exists(fs, Submodule("risc0-ethereum"))
    /\ pc \in {"sub_update", "sub_reset"} =>
          \A sub \in {"forge-std", "openzeppelin-contracts", "risc0-ethereum"} :
              IsDir(fs, Submodule(sub))

\* C14: the sub-steps of EstablishSubmodules run in the order of SubStepOrder:
\* each finds what the earlier ones left, a sub-step that succeeds leads to
\* the next one and nowhere else, a sub-step that fails ends the step with a
\* failure, and after that failure neither a later sub-step nor
\* RewriteRemappings runs: the bootstrap fails.
C14_SubStepsInOrder ==
    /\ [](cmd = "new" =>
            /\ SubStepsSoFar
            /\ (\E i \in DOMAIN log : log[i] = Ev("EstablishSubmodules", "err")) =>
                  /\ pc \in {"cleanup", "exit"}
                  /\ Failed
                  /\ \A i \in DOMAIN log : log[i].step # "RewriteRemappings")
    /\ [][\A k \in 1..9 :
            (cmd = "new" /\ pc = SubStepOrder[k]) =>
                \/ /\ pc' = SubStepOrder[k + 1]
                   /\ \A i \in DOMAIN log' : log'[i].ev # "err"
                \/ /\ pc' = "cleanup"
                   /\ log'[Len(log')] = Ev("EstablishSubmodules", "err")
         ]_vars

\* the step has failed after the three submodules were added
C14_Witness ==
    /\ cmd = "new" /\ pc = "cleanup"
    /\ log # <<>>
    /\ log[Len(log)] = Ev("EstablishSubmodules", "err")
    /\ IsDir(fs, Submodule("risc0-ethereum"))

\* the relocation has reported success and nothing has run since
Relocated ==
    /\ cmd = "new" /\ pc = "cargo"
    /\ log # <<>>
    /\ log[Len(log)] = Ev("RelocateFiles", "ok")

\* what the example directory of the clone held, below the directory itself
ExampleEntries == Under(cloned, Erc20Path) \ {Erc20Path}

\* C15: the root's plain files are deleted while the example sits at
\* <root>/erc20-counter (moved out of examples/, not yet moved in), so after a
\* successful relocation everything the example directory held is at the
\* same place below the project root, as the clone had it, its direct
\* entries being direct children of the root, and neither examples/ nor the
\* example directory exists.
C15_RelocationKeepsExample ==
    /\ (cmd = "new" /\ pc = "rel_delroot" /\ Exists(cloned, Erc20Path)) =>
          /\ ~Exists(fs, ExamplesPath)
          /\ \A q \in ExampleEntries :
                LET at == Rebase(q, Erc20Path, TempCounterPath)
                IN  Exists(fs, at) /\ fs[at] = cloned[q]
    /\ Relocated =>
          /\ \A q \in ExampleEntries :
                LET at == Rebase(q, Erc20Path, Root)
                IN  Exists(fs, at) /\ fs[at] = cloned[q]
          /\ ~Exists(fs, ExamplesPath)
          /\ ~Exists(fs, Erc20Path)
          /\ ~Exists(fs, TempCounterPath)

\* a relocation that went through for an example with a README.md of its
\* own, the name of one of the root's files
C15_Witness ==
    /\ Relocated
    /\ tmpl.shadow
    /\ Exists(cloned, Join(Root, <<"README.md">>))
    /\ fs[Join(Root, <<"README.md">>)] = cloned[Join(Erc20Path, <<"README.md">>)]

\* C16: with no example directory in the clone, the first move is skipped
\* and the step goes on; the move-in and the removal of the example
\* directory are skipped and the step reports success; by then examples/ is
\* gone, the root has no plain file left, and everything else is as the
\* sparse checkout left it.
C16_AbsentExampleTolerated ==
    /\ []((Relocated /\ ~Exists(cloned, Erc20Path)) =>
            /\ ~Exists(fs, ExamplesPath)
            /\ RootFiles(fs) = {}
            /\ LET sparse == Graft(fs0, Root, ConeSetTree(tmpl))
                   gone   == Under(sparse, ExamplesPath)
                             \cup {q \in Entries(sparse, Root) : IsFile(sparse, q)}
               IN  fs = Restrict(sparse, DOMAIN sparse \ gone))
    /\ [][/\ (cmd = "new" /\ pc = "rel_move" /\ ~Exists(fs, Erc20Path)) =>
                /\ fs' = fs
                /\ pc' = "rel_rmex"
                /\ log' = Append(log, Ev("RelocateFiles", "start"))
          /\ (cmd = "new" /\ pc = "rel_movein" /\ ~Exists(fs, TempCounterPath)) =>
                /\ fs' = fs
                /\ pc' = "cargo"
                /\ log' = Append(log, Ev("RelocateFiles", "ok"))
         ]_vars

\* a relocation that went through without an example
C16_Witness ==
    /\ Relocated
    /\ ~Exists(cloned, Erc20Path)
    /\ Exists(cloned, ExamplesPath)

\* a path of the project, relative to the project directory
ProjectRelative(q) == SubSeq(q, Len(Root) + 1, Len(q))

\* the rewrite of a manifest chosen by its place inside the project alone
RewriteByLocation(rel, c) ==
    IF rel = R2("methods", "Cargo.toml") THEN MethodsRules(c)
    ELSE IF IsUnderApps(R1("project") \o rel) THEN AppsRule(GeneralRules(c))
    ELSE GeneralRules(c)

\* C17: when the manifest walk is through, every manifest of the project
\* holds what the rule set for its place inside the project makes of the
\* content it came with: the methods substitution for methods/Cargo.toml and
\* for no other manifest, the general rules for the others, whatever the
\* project is called.
C17_RuleSetByLocation ==
    (cmd = "new" /\ pc = "foundry") =>
        \A q \in Manifests(fs, Root) :
            LET rel == ProjectRelative(q)
                src == Erc20Path \o rel
            IN  Exists(cloned, src) =>
                    fs[q].content = RewriteByLocation(rel, cloned[src].content)

\* the positions of the log at which update_remappings was entered
RemapStarts == {i \in DOMAIN log : log[i] = Ev("RewriteRemappings", "start")}

\* C18: in a run of `new`, update_remappings is entered at most once, and
\* only after EstablishSubmodules has reported success, the three submodules
\* being in place under lib/ when it is entered; until then remappings.txt,
\* wherever the relocation has it, holds what the clone's example had.
C18_RemapOnceAfterSubmodules ==
    cmd = "new" =>
        /\ Cardinality(RemapStarts) <= 1
        /\ \A i \in RemapStarts :
              \E h \in 1..(i - 1) : log[h] = Ev("EstablishSubmodules", "ok")
        /\ pc = "remap" =>
              \A sub \in {"forge-std", "openzeppelin-contracts", "risc0-ethereum"} :
                  IsDir(fs, Submodule(sub))
        /\ RemapStarts = {} =>
              \A q \in { Join(Erc20Path, <<"remappings.txt">>),
                         Join(TempCounterPath, <<"remappings.txt">>),
                         RemappingsPath } :
                  Exists(fs, q) =>
                      fs[q] = cloned[Join(Erc20Path, <<"remappings.txt">>)]

\* the bootstrap has ended in success with a remapping file rewritten
C18_Witness ==
    /\ Bootstrapped
    /\ RemapStarts # {}
    /\ IsFile(fs, RemappingsPath)
    /\ fs[RemappingsPath].content #
          cloned[Join(Erc20Path, <<"remappings.txt">>)].content

\* what the clone held for the file that is now at q: the example's file
\* that the relocation brought there, or the file the clone had at q
Origin(q) ==
    LET src == Erc20Path \o ProjectRelative(q)
    IN  IF Exists(cloned, src) THEN cloned[src] ELSE cloned[q]

ProjectFiles == {q \in Under(fs, Root) : IsFile(fs, q)}

IsManifest(q) == FileName(q) = <<"Cargo.toml">>

WalkFailed == \E i \in DOMAIN log : log[i] = Ev("RewriteManifests", "err")

\* C19: during the walk every file named Cargo.toml under the project that
\* the walk has yet to reach is as it came and every other one has been
\* rewritten, one rewrite of its original content; when the walk is through
\* all of them are rewritten; no file of another name is ever changed; and a
\* failure on an entry ends the walk at once (at most the manifest it failed
\* on is damaged, the ones not reached stay as they came) and makes
\* RewriteManifests, and the bootstrap, fail.
C19_WalkRewritesEachManifestOnce ==
    /\ (cmd = "new" /\ pc \in {"cargo_visit", "foundry"}) =>
          /\ pc = "foundry" =>
                todo = {} /\ log[Len(log)] = Ev("RewriteManifests", "ok")
          /\ todo \subseteq Manifests(fs, Root)
          /\ \A q \in ProjectFiles :
                fs[q].content =
                    IF IsManifest(q) /\ q \notin todo
                    THEN UpdateCargoContent(q, Origin(q).content)
                    ELSE Origin(q).content
    /\ (cmd = "new" /\ pc = "cleanup" /\ WalkFailed) =>
          /\ Failed
          /\ log[Len(log)] = Ev("RewriteManifests", "err")
          /\ \A q \in ProjectFiles :
                /\ ~IsManifest(q) => fs[q].content = Origin(q).content
                /\ IsManifest(q) =>
                      fs[q].content \in
                          { Origin(q).content, <<>>,
                            UpdateCargoContent(q, Origin(q).content) }
          /\ Cardinality({q \in ProjectFiles : fs[q].content = <<>>}) <= 1

\* the walk is through in a project with manifests at its root and below,
\* the one under apps/ changed by the rewrite
C19_Witness ==
    /\ cmd = "new" /\ pc = "foundry"
    /\ Cardinality(Manifests(fs, Root)) >= 4
    /\ LET q == Root \o R2("apps", "Cargo.toml")
       IN  IsFile(fs, q) /\ fs[q].content # Origin(q).content

\* the directories of the clone's root that are neither examples/ nor what
\* git keeps there
ExtraDirs ==
    {d \in Entries(cloned, Root) :
        IsDir(cloned, d) /\ d \notin {ExamplesPath, LibPath, GitPath}}

ExtraPaths == UNION {Under(fs, d) : d \in ExtraDirs}

\* C20 as claimed: with the SparseFilter step left out, a successful run
\* ends with the project tree that a successful run with the step ends with.
C20_SparseFilterOnlyOptimization ==
    Bootstrapped => fs = SparseFinalTree

\* C20 as amended: with the step left out, a successful run ends with the
\* tree of a run with the step and, in addition, every root-level directory
\* of the template other than examples/, with all it holds (its manifests
\* rewritten); the two trees differ whenever the template has such a
\* directory.
C20_SparseFilterDropsRootDirs ==
    Bootstrapped =>
        /\ Restrict(fs, DOMAIN fs \ ExtraPaths) = SparseFinalTree
        /\ \A d \in ExtraDirs :
              \A q \in Under(cloned, d) :
                  /\ Exists(fs, q)
                  /\ fs[q].content =
                        IF IsFile(fs, q) /\ IsManifest(q)
                        THEN UpdateCargoContent(q, cloned[q].content)
                        ELSE cloned[q].content
        /\ ExtraDirs # {} => fs # SparseFinalTree

\* a successful run without the step, from a template with an example: the
\* template's build/ is still in the project
C20_Witness ==
    /\ Bootstrapped
    /\ tmpl.example
    /\ IsFile(fs, Root \o R2("build", "Cargo.toml"))
    /\ IsFile(fs, Root \o R2("apps", "Cargo.toml"))

\* env.sh of the directory run_setup works in
EnvFile == Join(cwd, <<"env.sh">>)

\* run_setup has written env.sh and has not failed since
EnvWritten ==
    /\ cmd = "setup"
    /\ pc \in {"setup_chmod_env", "setup_done", "exit"}
    /\ ~Failed

\* C21 as claimed: env.sh written by a successful `setup` holds the four
\* defaults followed by the commented BONSAI_API_KEY placeholder, whatever
\* the caller's environment.
C21_EnvFileHasPlaceholder ==
    EnvWritten =>
        /\ IsFile(fs, EnvFile)
        /\ fs[EnvFile].content = ENV_VARS \o API_KEY_PLACEHOLDER

\* C21 as amended: env.sh holds the four defaults; the commented placeholder
\* follows them exactly when BONSAI_API_KEY is not set in the caller's
\* environment, and with the variable set the file ends after the defaults.
C21_EnvFilePlaceholderIfKeyUnset ==
    EnvWritten =>
        /\ IsFile(fs, EnvFile)
        /\ SubSeq(fs[EnvFile].content, 1, Len(ENV_VARS)) = ENV_VARS
        /\ SubSeq(fs[EnvFile].content, Len(ENV_VARS) + 1,
                  Len(fs[EnvFile].content))
              = IF envKey THEN <<>> ELSE API_KEY_PLACEHOLDER

\* a successful `setup` run with BONSAI_API_KEY set
C21_Witness ==
    /\ EnvWritten
    /\ pc = "exit"
    /\ envKey
    /\ IsFile(fs, EnvFile)

\* init_project has entered the clone step
CloneAttempted == \E i \in DOMAIN log : log[i] = Ev("Clone", "start")

\* C22: in `new` the clone step is entered only with a name that is not
\* empty after trimming, a project path that did not exist, and no probe
\* that failed; in every other case the command ends with the file system as
\* it was at invocation and no step run.
C22_CloneOnlyAfterPreconditions ==
    cmd = "new" =>
        /\ CloneAttempted =>
              /\ Trim(name) # <<>>
              /\ ~Exists(fs0, Root)
              /\ diag \notin {"dependency missing", "Folder name cannot be empty",
                              "already exists"}
        /\ ~CloneAttempted => fs = fs0
        /\ (\/ Trim(name) = <<>>
            \/ Exists(fs0, Root)
            \/ diag = "dependency missing") =>
              /\ ~CloneAttempted
              /\ log = <<>>
              /\ pc \in {"probe", "validate", "exists", "exit"}

\* `new` has ended on a name of whitespace only
C22_Witness ==
    /\ cmd = "new" /\ pc = "exit"
    /\ name = <<" ">>
    /\ diag = "Folder name cannot be empty"
    /\ fs = fs0

\* the other process has created the project path
CreatedByOther == \E i \in DOMAIN log : log[i] = Ev("OtherActor", "created")

\* C23: `new` deletes nothing it did not create: a directory that another
\* process created at the project path, be it between main's check of the
\* path and init_project's, is there with its content whatever `new` does
\* afterwards.
C23_CleanupSparesOthers ==
    (cmd = "new" /\ CreatedByOther) =>
        \A r \in DOMAIN OthersTree :
            /\ Exists(fs, Root \o r)
            /\ fs[Root \o r] = OthersTree[r]

\* C24: applying update_foundry_config to a foundry.toml it has rewritten
\* leaves the content as the first pass wrote it, so that the file has no
\* more `auto_detect_remappings = false` lines inserted than it has
\* [profile.default] headers.
C24_FoundryRewriteIdempotent ==
    cmd = "update_foundry_config" =>
        \A i \in 2..(Len(hist) - 1) :
            /\ hist[i + 1] = hist[i]
            /\ Count(hist[i + 1], <<NL, AUTO_DETECT>>)
                  <= Count(hist[1], <<NL, AUTO_DETECT>>)
                     + Count(hist[1], <<PROFILE>>)

====
